---- MODULE Spec2Model ----
(***************************************************************************)
(* The reminder trigger engine of smartReminder: the time scheduler        *)
(* (scheduleNotification / cancelNotification), the geofence tracker       *)
(* (startWatchingLocation / checkReminders / stopWatchingLocation) and the *)
(* useReminders hook that owns the collection and reconciles both.         *)
(*                                                                         *)
(* Time is in milliseconds since local midnight of day 0.  The browser's   *)
(* timer queue, its geolocation subscriptions and its pending one-shot     *)
(* position reads are part of the state, because the program's behaviour   *)
(* is the interleaving of their callbacks.                                 *)
(***************************************************************************)
EXTENDS Integers, Sequences, FiniteSets, TLC

\* ------------------------------------------------------------------ bounds
MaxReminders == 2        \* longest collection explored
MaxNow == 1200000        \* the clock stops advancing here (20 minutes)
MaxPendingReads == 1     \* one-shot position reads in flight at once

\* ------------------------------------------------------- program constants
MinuteMs == 60000        \* interval * 60 * 1000
HourMs == 3600000        \* interval * 60 * 60 * 1000
DayMs == 86400000        \* interval * 24 * 60 * 60 * 1000
\* R * PI / 180 / 1000 in millimetres: the length of 0.001 degree of latitude
MilliDegreeMm == 111195

\* the step by which the model's clock advances when no timer is due sooner
TickMs == 600000

\* -------------------------------------------------------------- the enums
Time == "time"
Location == "location"
OnEnter == "enter"
OnLeave == "leave"
Minutes == "minutes"
Hours == "hours"
Days == "days"
Interval == "interval"
Exact == "exact"

\* An optional field that is absent: the empty string (falsy, as undefined
\* is) for intervalUnit and triggerTimeType, 0 for interval, the empty
\* sequence for timeOfDay and location.
Missing == ""

IdOrder == <<"a", "b">>
Ids == { IdOrder[i] : i \in DOMAIN IdOrder }

\* A location on the meridian lng = 0: lat in units of 0.001 degree.
Loc(lat, radius, triggerOn) ==
    <<[lat |-> lat, radius |-> radius, triggerOn |-> triggerOn]>>

\* "HH:MM" as its characters
T0010 == <<"0", "0", ":", "1", "0">>
T0900 == <<"0", "9", ":", "0", "0">>

Rec(text, tt, ttt, tod, rec, iv, unit, loc) ==
    [text |-> text, triggerType |-> tt, triggerTimeType |-> ttt,
     timeOfDay |-> tod, isRecurring |-> rec, interval |-> iv,
     intervalUnit |-> unit, location |-> loc]

\* The reminder definitions the user can enter (without id): what the form
\* and an imported file supply.
Every10 == Rec("every10", Time, Interval, T0900, TRUE, 10, Minutes, <<>>)
Once10 == Rec("once10", Time, Interval, T0900, FALSE, 10, Minutes, <<>>)
At0010 == Rec("at0010", Time, Exact, T0010, FALSE, 10, Minutes, <<>>)
Daily0010 == Rec("daily0010", Time, Exact, T0010, TRUE, 1, Days, <<>>)
Arrive ==
    Rec("arrive", Location, Interval, T0900, FALSE, 10, Minutes,
        Loc(0, 100, OnEnter))
Depart ==
    Rec("depart", Location, Interval, T0900, TRUE, 10, Minutes,
        Loc(1, 100, OnLeave))


WithId(t, id) ==
    [id |-> id, text |-> t.text, triggerType |-> t.triggerType,
     triggerTimeType |-> t.triggerTimeType, timeOfDay |-> t.timeOfDay,
     isRecurring |-> t.isRecurring, interval |-> t.interval,
     intervalUnit |-> t.intervalUnit, location |-> t.location]

\* The reminders each specification draws its user input from
TimeReminders == { WithId(t, id) : t \in {Every10, Once10, At0010, Daily0010}, id \in Ids }
GeoReminders == { WithId(Arrive, "a"), WithId(Depart, "a") }
MixedReminders == { WithId(Once10, "a"), WithId(Arrive, "a") }

\* a timeOfDay that does not parse, and a unit the enum does not have: what
\* an imported file may hold
T0x10 == <<"0", "x", ":", "1", "0">>
Weeks == "weeks"

\* The reminders scheduleNotification is called with when it is exercised on
\* its own: every mode, with the optional fields present, absent or outside
\* the data model, all under one id so that each call meets the timer of the
\* call before.
IntervalInputs ==
    { WithId(Rec("i", Time, Interval, <<>>, rec, iv, unit, <<>>), "a") :
        rec \in BOOLEAN, iv \in {0 - 1, 0, 10, 20},
        unit \in {Missing, Minutes, Hours, Days, Weeks} }
ExactInputs ==
    { WithId(Rec("e", Time, Exact, tod, FALSE, 0, Missing, <<>>), "a") :
        tod \in {<<>>, T0010, T0900, T0x10} }
      \cup
    { WithId(Rec("e", Time, Exact, tod, TRUE, iv, unit, <<>>), "a") :
        tod \in {T0010, T0900}, iv \in {0 - 1, 0, 10, 20},
        unit \in {Missing, Minutes, Hours, Days, Weeks} }
OtherInputs ==
    { WithId(Rec("o", Time, Missing, T0010, FALSE, 1, Minutes, <<>>), "a"),
      WithId(Arrive, "a"), WithId(Depart, "a") }
DelayInputs == IntervalInputs \cup ExactInputs \cup OtherInputs

\* device positions: latitude in units of 0.001 degree on the meridian
Positions == {0, 1}

\* ------------------------------------------------------------ sequences
RECURSIVE SelectSeqBy(_, _)
IdsOf(list) == { list[i].id : i \in DOMAIN list }

IsTime(r) == r.triggerType = Time

\* the mutant of SelectSeqBy: no filter, the whole list
SelectSeqBy_All(s, kind) == s

\* reminders.filter(r => r.triggerType === kind)
SelectSeqBy(s, kind) ==
    IF s = <<>> THEN <<>>
    ELSE IF Head(s).triggerType = kind
         THEN <<Head(s)>> \o SelectSeqBy(Tail(s), kind)
         ELSE SelectSeqBy(Tail(s), kind)

Min(S) == CHOOSE x \in S : \A y \in S : x <= y

\* ------------------------------------------------------ time scheduler
\* Number(s) of one segment of timeOfDay.split(':'): the decimal value of a
\* digit string, 0 for the empty string, NaN otherwise.
NaN == -1

DigitValue(c) ==
    CASE c = "0" -> 0 [] c = "1" -> 1 [] c = "2" -> 2 [] c = "3" -> 3
      [] c = "4" -> 4 [] c = "5" -> 5 [] c = "6" -> 6 [] c = "7" -> 7
      [] c = "8" -> 8 [] c = "9" -> 9 [] OTHER -> NaN

RECURSIVE ToNumber(_, _)
ToNumber(chars, acc) ==
    IF chars = <<>> THEN acc
    ELSE IF DigitValue(Head(chars)) = NaN THEN NaN
         ELSE ToNumber(Tail(chars), acc * 10 + DigitValue(Head(chars)))

\* timeOfDay.split(':'): the segments between the colons
RECURSIVE SplitColon(_, _)
SplitColon(chars, cur) ==
    IF chars = <<>> THEN <<cur>>
    ELSE IF Head(chars) = ":" THEN <<cur>> \o SplitColon(Tail(chars), <<>>)
         ELSE SplitColon(Tail(chars), Append(cur, Head(chars)))

\* const [hours, minutes] = reminder.timeOfDay.split(':').map(Number)
ParseTimeOfDay(tod) ==
    LET parts == SplitColon(tod, <<>>)
    IN [hours |-> ToNumber(parts[1], 0),
        minutes |-> IF Len(parts) >= 2 THEN ToNumber(parts[2], 0) ELSE NaN]

\* getIntervalMilliseconds with the Hours case returning what Minutes does
getIntervalMilliseconds_HoursAsMinutes(interval, unit) ==
    CASE unit = Minutes -> interval * 60 * 1000
      [] unit = Hours -> interval * 60 * 1000
      [] unit = Days -> interval * 24 * 60 * 60 * 1000
      [] OTHER -> 0

getIntervalMilliseconds(interval, unit) ==
    CASE unit = Minutes -> interval * 60 * 1000
      [] unit = Hours -> interval * 60 * 60 * 1000
      [] unit = Days -> interval * 24 * 60 * 60 * 1000
      [] OTHER -> 0

\* The host's local calendar.  Date works in local time, and a local day
\* lasts 25 hours when the clocks go back and 23 when they go forward: here
\* day 1 is a day of the first kind and day 2 one of the second, every other
\* day has 24 hours.  DayShift is what the day has more than 24 hours.
DayShift(d) == IF d = 1 THEN HourMs ELSE IF d = 2 THEN 0 - HourMs ELSE 0

\* the instant of local midnight at the start of day d
RECURSIVE DayStart(_)
DayStart(d) ==
    IF d = 0 THEN 0 ELSE DayStart(d - 1) + DayMs + DayShift(d - 1)

\* the local day the instant nowMs lies in (the first day from d on)
RECURSIVE DayOf(_, _)
DayOf(nowMs, d) ==
    IF nowMs < DayStart(d + 1) THEN d ELSE DayOf(nowMs, d + 1)

\* The instant at which the local clock of day d shows hours:minutes.  The
\* clocks change at 02:00: later wall-clock times of that day are shifted,
\* and a time in the skipped hour is read with the offset before the change.
SetHoursOnDay(d, hours, minutes) ==
    DayStart(d) + hours * HourMs + minutes * MinuteMs
      + (IF hours >= (IF DayShift(d) < 0 THEN 3 ELSE 2) THEN DayShift(d) ELSE 0)

\* new Date() with setHours(hours, minutes, 0, 0): that wall-clock time of
\* the local day nowMs lies in
SetHours(nowMs, hours, minutes) ==
    SetHoursOnDay(DayOf(nowMs, 0), hours, minutes)

\* targetDate.setDate(targetDate.getDate() + 1): the same wall-clock time
\* on the next local day
NextDay(nowMs, hours, minutes) ==
    SetHoursOnDay(DayOf(nowMs, 0) + 1, hours, minutes)

\* the loop with < where the code compares with <=
RECURSIVE CatchUp_StopAtNow(_, _, _)
CatchUp_StopAtNow(target, nowMs, intervalMs) ==
    IF target < nowMs
    THEN CatchUp_StopAtNow(target + intervalMs, nowMs, intervalMs)
    ELSE target

\* while (targetDate.getTime() <= now.getTime()) targetDate += intervalMs
RECURSIVE CatchUp(_, _, _)
CatchUp(target, nowMs, intervalMs) ==
    IF target <= nowMs THEN CatchUp(target + intervalMs, nowMs, intervalMs)
    ELSE target

\* the exact branch with < where the code compares with <=
ExactTarget_StrictPast(r, nowMs) ==
    LET hm == ParseTimeOfDay(r.timeOfDay)
        today == SetHours(nowMs, hm.hours, hm.minutes)
        intervalMs ==
            getIntervalMilliseconds(
                IF r.interval = 0 THEN 1 ELSE r.interval,
                IF r.intervalUnit = Missing THEN Days ELSE r.intervalUnit)
        tomorrow == NextDay(nowMs, hm.hours, hm.minutes)
    IN IF today < nowMs
       THEN IF r.isRecurring
            THEN IF intervalMs > 0 THEN CatchUp(today, nowMs, intervalMs)
                 ELSE tomorrow
            ELSE tomorrow
       ELSE today

\* the exact branch with the rule of the form: one day when the interval or
\* the unit is missing
ExactTarget_DayWhenMissing(r, nowMs) ==
    LET hm == ParseTimeOfDay(r.timeOfDay)
        today == SetHours(nowMs, hm.hours, hm.minutes)
        intervalMs ==
            IF r.interval = 0 \/ r.intervalUnit = Missing
            THEN getIntervalMilliseconds(1, Days)
            ELSE getIntervalMilliseconds(r.interval, r.intervalUnit)
        tomorrow == NextDay(nowMs, hm.hours, hm.minutes)
    IN IF today <= nowMs
       THEN IF r.isRecurring
            THEN IF intervalMs > 0 THEN CatchUp(today, nowMs, intervalMs)
                 ELSE tomorrow
            ELSE tomorrow
       ELSE today

\* The exact branch of scheduleNotification: the target instant
ExactTarget(r, nowMs) ==
    LET hm == ParseTimeOfDay(r.timeOfDay)
        today == SetHours(nowMs, hm.hours, hm.minutes)
        intervalMs ==
            getIntervalMilliseconds(
                IF r.interval = 0 THEN 1 ELSE r.interval,
                IF r.intervalUnit = Missing THEN Days ELSE r.intervalUnit)
        tomorrow == NextDay(nowMs, hm.hours, hm.minutes)
    IN IF today <= nowMs
       THEN IF r.isRecurring
            THEN IF intervalMs > 0 THEN CatchUp(today, nowMs, intervalMs)
                 ELSE tomorrow
            ELSE tomorrow
       ELSE today

\* The delay scheduleNotification computes for a Time reminder, and whether
\* it goes on to window.setTimeout.  An unparsable timeOfDay makes every
\* comparison false (NaN), so the timer is armed and the browser runs it
\* with no delay.
ComputeDelay(r, nowMs) ==
    IF r.triggerTimeType = Exact /\ r.timeOfDay # <<>>
    THEN LET hm == ParseTimeOfDay(r.timeOfDay)
         IN IF hm.hours = NaN \/ hm.minutes = NaN
            THEN [arm |-> TRUE, delay |-> 0]
            ELSE LET d == ExactTarget(r, nowMs) - nowMs
                 IN [arm |-> d > 0, delay |-> d]
    ELSE IF r.triggerTimeType = Interval
         THEN IF r.interval = 0 \/ r.intervalUnit = Missing
              THEN [arm |-> FALSE, delay |-> 0]
              ELSE LET d == getIntervalMilliseconds(r.interval, r.intervalUnit)
                   IN [arm |-> d > 0, delay |-> d]
         ELSE [arm |-> FALSE, delay |-> 0]

\* The scheduler's state: the browser's pending timeouts and the module's
\* scheduledNotifications map (reminder id -> timeout id).
FireAt(t) == t.armedAt + t.delay

MapRange(m) == { m[k] : k \in DOMAIN m }

\* window.setTimeout returns a handle no live timer or map entry holds
FreshTimerId(s) ==
    LET used == { t.tid : t \in s.timers } \cup MapRange(s.map)
    IN Min((1..(Cardinality(used) + 1)) \ used)

\* cancelNotification without window.clearTimeout
cancelNotification_NoClear(s, id) ==
    IF id \in DOMAIN s.map
    THEN [timers |-> s.timers,
          map |-> [k \in DOMAIN s.map \ {id} |-> s.map[k]]]
    ELSE s

cancelNotification(s, id) ==
    IF id \in DOMAIN s.map
    THEN [timers |-> { t \in s.timers : t.tid # s.map[id] },
          map |-> [k \in DOMAIN s.map \ {id} |-> s.map[k]]]
    ELSE s

\* scheduleNotification without its first line, cancelNotification(id)
scheduleNotification_NoCancel(s, r, nowMs, chain) ==
    LET d == ComputeDelay(r, nowMs)
        tid == FreshTimerId(s)
    IN IF r.triggerType # Time THEN s
       ELSE IF ~d.arm THEN s
       ELSE [timers |-> s.timers \cup
                 {[tid |-> tid, rem |-> r, armedAt |-> nowMs,
                   delay |-> d.delay, chain |-> chain]},
             map |-> [k \in DOMAIN s.map \cup {r.id} |->
                         IF k = r.id THEN tid ELSE s.map[k]]]

\* scheduleNotification with the type test before cancelNotification(id)
scheduleNotification_TestBeforeCancel(s, r, nowMs, chain) ==
    LET s1 == cancelNotification(s, r.id)
        d == ComputeDelay(r, nowMs)
        tid == FreshTimerId(s1)
    IN IF r.triggerType # Time THEN s
       ELSE IF ~d.arm THEN s1
       ELSE [timers |-> s1.timers \cup
                 {[tid |-> tid, rem |-> r, armedAt |-> nowMs,
                   delay |-> d.delay, chain |-> chain]},
             map |-> [k \in DOMAIN s1.map \cup {r.id} |->
                         IF k = r.id THEN tid ELSE s1.map[k]]]

\* scheduleNotification with cancelNotification(id) as its last statement
scheduleNotification_CancelLast(s, r, nowMs, chain) ==
    LET d == ComputeDelay(r, nowMs)
        tid == FreshTimerId(s)
    IN IF r.triggerType # Time THEN cancelNotification(s, r.id)
       ELSE IF ~d.arm THEN cancelNotification(s, r.id)
       ELSE cancelNotification(
                [timers |-> s.timers \cup
                     {[tid |-> tid, rem |-> r, armedAt |-> nowMs,
                       delay |-> d.delay, chain |-> chain]},
                 map |-> [k \in DOMAIN s.map \cup {r.id} |->
                             IF k = r.id THEN tid ELSE s.map[k]]],
                r.id)

\* chain: 0 when the effect calls, otherwise the number of timer callbacks
\* of a recurring reminder that led to this call (history, counted up to 2)
scheduleNotification(s, r, nowMs, chain) ==
    LET s1 == cancelNotification(s, r.id)
        d == ComputeDelay(r, nowMs)
        tid == FreshTimerId(s1)
    IN IF r.triggerType # Time THEN s1
       ELSE IF ~d.arm THEN s1
       ELSE [timers |-> s1.timers \cup
                 {[tid |-> tid, rem |-> r, armedAt |-> nowMs,
                   delay |-> d.delay, chain |-> chain]},
             map |-> [k \in DOMAIN s1.map \cup {r.id} |->
                         IF k = r.id THEN tid ELSE s1.map[k]]]

\* timeBasedReminders.forEach(scheduleNotification)
RECURSIVE ScheduleAll(_, _, _)
ScheduleAll(s, list, nowMs) ==
    IF list = <<>> THEN s
    ELSE ScheduleAll(scheduleNotification(s, Head(list), nowMs, 0),
                     Tail(list), nowMs)

\* the callback without the re-arm of a recurring reminder
TimerCallback_NoRearm(s, t, nowMs) ==
    [timers |-> s.timers,
     map |-> [k \in DOMAIN s.map \ {t.rem.id} |-> s.map[k]]]

\* the callback without the clean-up of a non-recurring reminder
TimerCallback_NoCleanup(s, t, nowMs) ==
    IF t.rem.isRecurring
    THEN scheduleNotification(s, t.rem, nowMs,
                              IF t.chain < 2 THEN t.chain + 1 ELSE 2)
    ELSE s

\* The callback of window.setTimeout for timer t, after the browser has
\* removed t from its queue: re-arm a recurring reminder, forget the handle
\* of a non-recurring one.
TimerCallback(s, t, nowMs) ==
    IF t.rem.isRecurring
    THEN scheduleNotification(s, t.rem, nowMs,
                              IF t.chain < 2 THEN t.chain + 1 ELSE 2)
    ELSE [timers |-> s.timers,
          map |-> [k \in DOMAIN s.map \ {t.rem.id} |-> s.map[k]]]

\* --------------------------------------------------- geofence tracker
\* the mutant of calculateDistance: the signed difference of the latitudes
calculateDistance_Signed(lat1, lat2) == (lat2 - lat1) * MilliDegreeMm

\* calculateDistance between two points of the meridian, in millimetres:
\* the haversine formula reduces to R * |lat2 - lat1| * PI / 180 there.
calculateDistance(lat1, lat2) ==
    (IF lat1 >= lat2 THEN lat1 - lat2 ELSE lat2 - lat1) * MilliDegreeMm

\* the mutant of IsInside: the boundary is outside
IsInside_Strict(pos, loc) ==
    calculateDistance(pos, loc.lat) < loc.radius * 1000

\* distance <= reminder.location.radius (radius in metres)
IsInside(pos, loc) == calculateDistance(pos, loc.lat) <= loc.radius * 1000

SetState(states, id, v) ==
    [k \in DOMAIN states \cup {id} |-> IF k = id THEN v ELSE states[k]]

\* checkReminders without the test state.wasInside !== isInside
RECURSIVE checkReminders_NoFlipTest(_, _, _, _)
checkReminders_NoFlipTest(states, pos, list, triggered) ==
    IF list = <<>> THEN [states |-> states, triggered |-> triggered]
    ELSE LET r == Head(list)
         IN IF r.location = <<>>
            THEN checkReminders_NoFlipTest(states, pos, Tail(list), triggered)
            ELSE LET loc == r.location[1]
                     isInside == IsInside(pos, loc)
                     fire == \/ isInside /\ loc.triggerOn = OnEnter
                             \/ ~isInside /\ loc.triggerOn = OnLeave
                 IN checkReminders_NoFlipTest(
                        SetState(states, r.id, isInside), pos, Tail(list),
                        IF fire THEN Append(triggered, r) ELSE triggered)

\* One run of checkReminders over the captured list: the new locationStates
\* and the reminders handed to onTrigger, in order.
RECURSIVE checkReminders(_, _, _, _)
checkReminders(states, pos, list, triggered) ==
    IF list = <<>> THEN [states |-> states, triggered |-> triggered]
    ELSE LET r == Head(list)
         IN IF r.location = <<>>
            THEN checkReminders(states, pos, Tail(list), triggered)
            ELSE LET loc == r.location[1]
                     isInside == IsInside(pos, loc)
                     wasInside == IF r.id \in DOMAIN states
                                  THEN states[r.id] ELSE isInside
                     fire == /\ wasInside # isInside
                             /\ \/ isInside /\ loc.triggerOn = OnEnter
                                \/ ~isInside /\ loc.triggerOn = OnLeave
                 IN checkReminders(SetState(states, r.id, isInside), pos,
                        Tail(list),
                        IF fire THEN Append(triggered, r) ELSE triggered)

\* The getCurrentPosition callback of startWatchingLocation
RECURSIVE InitStates(_, _, _)
InitStates(states, pos, list) ==
    IF list = <<>> THEN states
    ELSE LET r == Head(list)
         IN IF r.location = <<>> THEN InitStates(states, pos, Tail(list))
            ELSE InitStates(
                     SetState(states, r.id, IsInside(pos, r.location[1])),
                     pos, Tail(list))

\* The tracker's state with the browser's side of it: watchId (0 is null),
\* the geolocation subscriptions (live, or cleared with one sample still in
\* flight), the one-shot reads not yet answered, and locationStates.
NoStates == [k \in {} |-> FALSE]

\* navigator.geolocation.clearWatch(wid): the subscription ends; a sample
\* acquired before the call may still be delivered once (inflight)
ClearWatch(subs, wid, inflight) ==
    LET mine == { w \in subs : w.wid = wid /\ w.live }
        rest == subs \ mine
    IN IF inflight
       THEN rest \cup { [w EXCEPT !.live = FALSE] : w \in mine }
       ELSE rest

\* stopWatchingLocation without watchId = null
stopWatchingLocation_KeepWatchId(g, inflight) ==
    IF g.watchId # 0
    THEN [g EXCEPT !.subs = ClearWatch(g.subs, g.watchId, inflight)]
    ELSE g

stopWatchingLocation(g, inflight) ==
    IF g.watchId # 0
    THEN [g EXCEPT !.subs = ClearWatch(g.subs, g.watchId, inflight),
                   !.watchId = 0]
    ELSE g

\* watchPosition and getCurrentPosition return/identify a fresh request
FreshWatchId(g) ==
    LET used == { w.wid : w \in g.subs } \cup { q.wid : q \in g.reads }
    IN Min((1..(Cardinality(used) + 1)) \ used)

\* startWatchingLocation without the stop of the watch that is live
startWatchingLocation_NoStop(g, list, inflight) ==
    LET wid == FreshWatchId(g)
    IN [watchId |-> wid,
        subs |-> g.subs \cup {[wid |-> wid, rems |-> list, live |-> TRUE]},
        reads |-> g.reads \cup {[wid |-> wid, rems |-> list]},
        states |-> NoStates]

startWatchingLocation(g, list, inflight) ==
    LET g1 == IF g.watchId # 0 THEN stopWatchingLocation(g, inflight) ELSE g
        wid == FreshWatchId(g1)
    IN [watchId |-> wid,
        subs |-> g1.subs \cup {[wid |-> wid, rems |-> list, live |-> TRUE]},
        reads |-> g1.reads \cup {[wid |-> wid, rems |-> list]},
        states |-> NoStates]

\* ------------------------------------------------------ the collection
\* setReminders(prev => prev.filter(r => r.id !== id))
RECURSIVE FilterOut(_, _)
FilterOut(list, id) ==
    IF list = <<>> THEN <<>>
    ELSE IF Head(list).id = id THEN FilterOut(Tail(list), id)
         ELSE <<Head(list)>> \o FilterOut(Tail(list), id)

\* setReminders(prev => prev.map(r => r.id === u.id ? u : r))
MapUpdate(list, u) ==
    [i \in DOMAIN list |-> IF list[i].id = u.id THEN u ELSE list[i]]

\* The onTrigger callback useReminders hands to startWatchingLocation,
\* applied to each triggered reminder in turn: showNotification, and
\* deleteReminder for a non-recurring one.  c is the collection with the
\* scheduler: [reminders, sched, changed].
RECURSIVE OnLocationTriggers(_, _)
OnLocationTriggers(c, triggered) ==
    IF triggered = <<>> THEN c
    ELSE LET r == Head(triggered)
         IN IF ~r.isRecurring
            THEN OnLocationTriggers(
                     [reminders |-> FilterOut(c.reminders, r.id),
                      sched |-> cancelNotification(c.sched, r.id),
                      changed |-> TRUE],
                     Tail(triggered))
            ELSE OnLocationTriggers(c, Tail(triggered))

\* ------------------------------------------------------- the JSON form
\* JSON.stringify and JSON.parse on a reminder collection.  The text is kept
\* as its structure: an array of objects, an object a sequence of members,
\* a member its key, the kind of its value and the value's text (a number
\* its decimal digits).
DigitChar(d) ==
    CASE d = 0 -> "0" [] d = 1 -> "1" [] d = 2 -> "2" [] d = 3 -> "3"
      [] d = 4 -> "4" [] d = 5 -> "5" [] d = 6 -> "6" [] d = 7 -> "7"
      [] d = 8 -> "8" [] OTHER -> "9"

\* the mutant of NumberToString: the sign is not written
RECURSIVE NumberToString_NoSign(_)
NumberToString_NoSign(n) ==
    IF n < 0 THEN NumberToString_NoSign(0 - n)
    ELSE IF n < 10 THEN <<DigitChar(n)>>
         ELSE Append(NumberToString_NoSign(n \div 10), DigitChar(n % 10))

\* the decimal text JSON.stringify writes for an integer
RECURSIVE NumberToString(_)
NumberToString(n) ==
    IF n < 0 THEN <<"-">> \o NumberToString(0 - n)
    ELSE IF n < 10 THEN <<DigitChar(n)>>
         ELSE Append(NumberToString(n \div 10), DigitChar(n % 10))

\* the number JSON.parse reads from a decimal text
StringToNumber(chars) ==
    IF chars # <<>> /\ Head(chars) = "-"
    THEN 0 - ToNumber(Tail(chars), 0)
    ELSE ToNumber(chars, 0)

Member(key, kind, text) == [key |-> key, kind |-> kind, text |-> text]

\* JSON.stringify leaves out a property whose value is undefined
StringMember(key, s) ==
    IF s = Missing THEN <<>> ELSE <<Member(key, "string", s)>>

\* a string the model holds as its characters
CharsMember(key, chars) ==
    IF chars = <<>> THEN <<>> ELSE <<Member(key, "string", chars)>>

NumberMember(key, n) == <<Member(key, "number", NumberToString(n))>>

StringifyLocation(loc) ==
    NumberMember("lat", loc.lat) \o NumberMember("radius", loc.radius)
      \o StringMember("triggerOn", loc.triggerOn)

StringifyReminder(r) ==
    StringMember("id", r.id) \o StringMember("text", r.text)
      \o StringMember("triggerType", r.triggerType)
      \o StringMember("triggerTimeType", r.triggerTimeType)
      \o CharsMember("timeOfDay", r.timeOfDay)
      \o <<Member("isRecurring", "boolean", r.isRecurring)>>
      \o NumberMember("interval", r.interval)
      \o StringMember("intervalUnit", r.intervalUnit)
      \o (IF r.location = <<>> THEN <<>>
          ELSE <<Member("location", "object",
                        StringifyLocation(r.location[1]))>>)

\* JSON.stringify(reminders)
JsonStringify(list) == [i \in DOMAIN list |-> StringifyReminder(list[i])]

\* obj[key] of a parsed object: the value of the member, undefined (the
\* given absent value) when the text has no such member
Field(obj, key, absent) ==
    IF \E i \in DOMAIN obj : obj[i].key = key
    THEN LET m == obj[CHOOSE i \in DOMAIN obj : obj[i].key = key]
         IN IF m.kind = "number" THEN StringToNumber(m.text) ELSE m.text
    ELSE absent

ParseLocation(obj) ==
    [lat |-> Field(obj, "lat", 0), radius |-> Field(obj, "radius", 0),
     triggerOn |-> Field(obj, "triggerOn", Missing)]

ParseReminder(obj) ==
    [id |-> Field(obj, "id", Missing), text |-> Field(obj, "text", Missing),
     triggerType |-> Field(obj, "triggerType", Missing),
     triggerTimeType |-> Field(obj, "triggerTimeType", Missing),
     timeOfDay |-> Field(obj, "timeOfDay", <<>>),
     isRecurring |-> Field(obj, "isRecurring", FALSE),
     interval |-> Field(obj, "interval", 0),
     intervalUnit |-> Field(obj, "intervalUnit", Missing),
     location |-> IF Field(obj, "location", <<>>) = <<>> THEN <<>>
                  ELSE <<ParseLocation(Field(obj, "location", <<>>))>>]

\* JSON.parse(text) of an array of reminders
JsonParse(text) == [i \in DOMAIN text |-> ParseReminder(text[i])]

\* ----------------------------------------------------------- the state
VARIABLES
    reminders,                \* useReminders: the collection (a sequence)
    effectPending,            \* the [reminders] effect has yet to run
    now,                      \* the clock, ms
    timers,                   \* window.setTimeout: the pending timeouts
    scheduledNotifications,   \* reminder id -> timeout id
    watchId,                  \* locationService: 0 when null
    subs,                     \* geolocation subscriptions of the browser
    pendingReads,             \* getCurrentPosition calls not yet answered
    locationStates,           \* reminder id -> wasInside
    last,                     \* history: the step just taken
    callbacksSinceStart,      \* history: 1 once a position callback has
                              \* run since the last start()
    baselineRead,             \* history: the one-shot read of the last
                              \* start() has set the baseline
    prevSample,               \* history: the position of the last sample
                              \* of the live watch since the last start()
    firedOnce                 \* history: the ids of the non-recurring
                              \* reminders whose timer has fired, until
                              \* they are edited or deleted

vars == <<reminders, effectPending, now, timers, scheduledNotifications,
          watchId, subs, pendingReads, locationStates, last,
          callbacksSinceStart, baselineRead, prevSample, firedOnce>>

Sched == [timers |-> timers, map |-> scheduledNotifications]
Geo == [watchId |-> watchId, subs |-> subs, reads |-> pendingReads,
        states |-> locationStates]

\* kind: what ran; id: the id it was called with; fired: the reminders handed
\* to showNotification; cancelled: a pending timer or a live watch was
\* cleared; arg: the reminders a direct call of scheduleNotification or
\* startWatchingLocation was given
StepWith(kind, id, fired, cancelled, arg) ==
    [kind |-> kind, id |-> id, fired |-> fired, cancelled |-> cancelled,
     arg |-> arg]

Step(kind, id, fired, cancelled) == StepWith(kind, id, fired, cancelled, <<>>)

Other == Step("other", "", <<>>, FALSE)

SetSched(s) ==
    /\ timers' = s.timers
    /\ scheduledNotifications' = s.map

SetGeo(g) ==
    /\ watchId' = g.watchId
    /\ subs' = g.subs
    /\ pendingReads' = g.reads
    /\ locationStates' = g.states

schedVars == <<timers, scheduledNotifications>>
geoVars == <<watchId, subs, pendingReads, locationStates>>
histVars == <<callbacksSinceStart, baselineRead, prevSample, firedOnce>>

Init ==
    /\ reminders = <<>>
    /\ effectPending = TRUE
    /\ now = 0
    /\ timers = {}
    /\ scheduledNotifications = NoStates
    /\ watchId = 0
    /\ subs = {}
    /\ pendingReads = {}
    /\ locationStates = NoStates
    /\ last = Other
    /\ callbacksSinceStart = 0
    /\ baselineRead = FALSE
    /\ prevSample = <<>>
    /\ firedOnce = {}

\* A sample that was in flight when its subscription was cleared is already
\* queued with the event loop: its callback runs before any later event.
NoInFlight == \A w \in subs : w.live

\* every id some part of the state still refers to
UsedIds ==
    IdsOf(reminders) \cup { t.rem.id : t \in timers }
      \cup DOMAIN scheduledNotifications \cup DOMAIN locationStates
      \cup UNION { IdsOf(w.rems) : w \in subs }
      \cup UNION { IdsOf(q.rems) : q \in pendingReads }

\* Ids are opaque: the first unused one stands for any id never used before
FreshIds ==
    { IdOrder[i] : i \in { j \in DOMAIN IdOrder :
                              /\ IdOrder[j] \notin UsedIds
                              /\ \A k \in 1..(j - 1) : IdOrder[k] \in UsedIds } }

\* id: Date.now().toString(), an id never used before
AddReminder(r) ==
    /\ NoInFlight
    /\ ~effectPending
    /\ Len(reminders) < MaxReminders
    /\ r.id \in FreshIds
    /\ reminders' = Append(reminders, r)
    /\ effectPending' = TRUE
    /\ last' = Other
    /\ UNCHANGED <<now, schedVars, geoVars, histVars>>

\* App.handleSave takes this branch when the id is in the collection
UpdateReminder(u) ==
    /\ NoInFlight
    /\ ~effectPending
    /\ u.id \in IdsOf(reminders)
    /\ reminders' = MapUpdate(reminders, u)
    /\ effectPending' = TRUE
    /\ last' = Other
    /\ firedOnce' = firedOnce \ {u.id}
    /\ UNCHANGED <<now, schedVars, geoVars, callbacksSinceStart,
                   baselineRead, prevSample>>

DeleteReminder(id) ==
    /\ NoInFlight
    /\ ~effectPending
    /\ id \in IdsOf(reminders)
    /\ SetSched(cancelNotification(Sched, id))
    /\ reminders' = FilterOut(reminders, id)
    /\ effectPending' = TRUE
    /\ last' = Step("delete", id, <<>>, id \in DOMAIN scheduledNotifications)
    /\ firedOnce' = firedOnce \ {id}
    /\ UNCHANGED <<now, geoVars, callbacksSinceStart, baselineRead,
                   prevSample>>

\* handleFileChange has validated the file; its ids are the user's, so they
\* may be ids already in use
ImportReminders(list) ==
    /\ NoInFlight
    /\ ~effectPending
    /\ IdsOf(list) \subseteq UsedIds \cup FreshIds
    /\ Len(reminders) + Len(list) <= MaxReminders
    /\ reminders' = reminders \o list
    /\ effectPending' = TRUE
    /\ last' = Other
    /\ UNCHANGED <<now, schedVars, geoVars, histVars>>

\* The [reminders] effect of useReminders: the cleanup of the previous run,
\* then the body.
Reconcile(inflight) ==
    /\ NoInFlight
    /\ effectPending
    /\ LET timeBased == SelectSeqBy(reminders, Time)
           locationBased == SelectSeqBy(reminders, Location)
           cleaned == stopWatchingLocation(Geo, inflight)
       IN /\ locationBased # <<>> => Cardinality(pendingReads) < MaxPendingReads
          /\ SetSched(ScheduleAll(Sched, timeBased, now))
          /\ IF locationBased # <<>>
             THEN /\ SetGeo(startWatchingLocation(cleaned, locationBased,
                                                  inflight))
                  /\ callbacksSinceStart' = 0
                  /\ baselineRead' = FALSE
                  /\ prevSample' = <<>>
                  /\ UNCHANGED firedOnce
             ELSE /\ SetGeo(stopWatchingLocation(cleaned, inflight))
                  /\ UNCHANGED histVars
          /\ last' = Step("reconcile", "", <<>>,
                          \E i \in DOMAIN timeBased :
                              timeBased[i].id \in DOMAIN scheduledNotifications)
    /\ effectPending' = FALSE
    /\ UNCHANGED <<reminders, now>>

\* The clock advances, never past the instant a pending timer is due
Tick ==
    /\ NoInFlight
    /\ \A t \in timers : FireAt(t) > now
    /\ LET next == Min({now + TickMs} \cup { FireAt(t) : t \in timers })
       IN /\ next <= MaxNow
          /\ now' = next
    /\ last' = Other
    /\ UNCHANGED <<reminders, effectPending, schedVars, geoVars, histVars>>

\* The browser runs the callback of a timeout that is due
TimerFire(t) ==
    /\ NoInFlight
    /\ t \in timers
    /\ FireAt(t) <= now
    /\ SetSched(TimerCallback([timers |-> timers \ {t},
                               map |-> scheduledNotifications], t, now))
    /\ last' = Step("fire", t.rem.id, <<t.rem>>, FALSE)
    /\ firedOnce' = (IF t.rem.isRecurring THEN firedOnce
                     ELSE firedOnce \cup {t.rem.id})
    /\ UNCHANGED <<reminders, effectPending, now, geoVars,
                   callbacksSinceStart, baselineRead, prevSample>>

Bump(n) == IF n < 1 THEN n + 1 ELSE 1

\* The success callback of a getCurrentPosition call
OneShotRead(q, pos) ==
    /\ NoInFlight
    /\ q \in pendingReads
    /\ locationStates' = InitStates(locationStates, pos, q.rems)
    /\ pendingReads' = pendingReads \ {q}
    /\ callbacksSinceStart' = Bump(callbacksSinceStart)
    /\ baselineRead' = (baselineRead \/ q.wid = watchId)
    /\ last' = Other
    /\ UNCHANGED <<reminders, effectPending, now, schedVars, watchId, subs,
                   prevSample, firedOnce>>

\* The read fails or times out: no error callback was passed
OneShotFail(q) ==
    /\ NoInFlight
    /\ q \in pendingReads
    /\ pendingReads' = pendingReads \ {q}
    /\ last' = Other
    /\ UNCHANGED <<reminders, effectPending, now, schedVars, watchId, subs,
                   locationStates, histVars>>

\* checkReminders with the list and callback the subscription captured
ProcessSample(w, pos, kind) ==
    LET res == checkReminders(locationStates, pos, w.rems, <<>>)
        c == OnLocationTriggers(
                 [reminders |-> reminders, sched |-> Sched,
                  changed |-> FALSE], res.triggered)
    IN /\ locationStates' = res.states
       /\ reminders' = c.reminders
       /\ SetSched(c.sched)
       /\ effectPending' = (effectPending \/ c.changed)
       /\ callbacksSinceStart' = Bump(callbacksSinceStart)
       /\ prevSample' = (IF kind = "sample" THEN <<pos>> ELSE prevSample)
       /\ firedOnce' = firedOnce \cap IdsOf(c.reminders)
       /\ last' = Step(kind, "", res.triggered,
                        c.sched.timers # timers)
       /\ UNCHANGED <<now, watchId, pendingReads, baselineRead>>

\* A position sample of the live subscription
WatchSample(w, pos) ==
    /\ NoInFlight
    /\ w \in subs
    /\ w.live
    /\ ProcessSample(w, pos, "sample")
    /\ UNCHANGED subs

\* The sample that was in flight when its subscription was cleared
InFlightSample(w, pos) ==
    /\ w \in subs
    /\ ~w.live
    /\ ProcessSample(w, pos, "inflight")
    /\ subs' = subs \ {w}

\* handleError: the error callback of a subscription (live, or the event
\* that was in flight when it was cleared)
WatchError(w, inflight) ==
    /\ w \in subs
    /\ w.live => NoInFlight
    /\ SetGeo(stopWatchingLocation(
                  [Geo EXCEPT !.subs = IF w.live THEN subs ELSE subs \ {w}],
                  inflight))
    /\ last' = Step("error", "", <<>>, watchId # 0)
    /\ UNCHANGED <<reminders, effectPending, now, schedVars, histVars>>

ImportLists(pool) == { <<r>> : r \in pool }

UserStep(pool) ==
    \/ \E r \in pool : AddReminder(r)
    \/ \E u \in pool : UpdateReminder(u)
    \/ \E id \in Ids : DeleteReminder(id)
    \/ \E list \in ImportLists(pool) : ImportReminders(list)

TimerStep ==
    \/ Tick
    \/ \E t \in timers : TimerFire(t)

PositionStep ==
    \/ \E q \in pendingReads, pos \in Positions : OneShotRead(q, pos)
    \/ \E q \in pendingReads : OneShotFail(q)
    \/ \E w \in subs, pos \in Positions : WatchSample(w, pos)
    \/ \E w \in subs, pos \in Positions : InFlightSample(w, pos)
    \/ \E w \in subs, b \in BOOLEAN : WatchError(w, b)

\* Time and Location reminders together
Next ==
    \/ UserStep(MixedReminders)
    \/ \E b \in BOOLEAN : Reconcile(b)
    \/ TimerStep
    \/ PositionStep

Spec == Init /\ [][Next]_vars

\* Time reminders only: the scheduler
NextTime ==
    \/ UserStep(TimeReminders)
    \/ \E b \in BOOLEAN : Reconcile(b)
    \/ TimerStep

SpecTime == Init /\ [][NextTime]_vars

\* Location reminders only: the tracker
NextGeo ==
    \/ UserStep(GeoReminders)
    \/ \E b \in BOOLEAN : Reconcile(b)
    \/ PositionStep

SpecGeo == Init /\ [][NextGeo]_vars

\* The instants at which scheduleNotification is exercised on its own: around
\* 00:10 of day 0, at 01:10, and on the days of 25 and of 23 hours
Instants ==
    { 0, 599999, 600000, 600001, 4200000,
      DayStart(1) + 600000, DayStart(1) + 660000, DayStart(2) + 600001 }

InitDelay ==
    /\ reminders = <<>>
    /\ effectPending = FALSE
    /\ now \in Instants
    /\ timers = {}
    /\ scheduledNotifications = NoStates
    /\ watchId = 0
    /\ subs = {}
    /\ pendingReads = {}
    /\ locationStates = NoStates
    /\ last = Other
    /\ callbacksSinceStart = 0
    /\ baselineRead = FALSE
    /\ prevSample = <<>>
    /\ firedOnce = {}

\* scheduleNotification(r), called at the instant now
ScheduleCall(r) ==
    /\ SetSched(scheduleNotification(Sched, r, now, 0))
    /\ last' = StepWith("schedule", r.id, <<>>,
                        r.id \in DOMAIN scheduledNotifications, <<r>>)
    /\ UNCHANGED <<reminders, effectPending, now, geoVars, histVars>>

\* cancelNotification(id)
CancelCall(id) ==
    /\ SetSched(cancelNotification(Sched, id))
    /\ last' = Step("cancel", id, <<>>, id \in DOMAIN scheduledNotifications)
    /\ UNCHANGED <<reminders, effectPending, now, geoVars, histVars>>

\* time passes between two calls
LaterCall ==
    /\ \E i \in Instants : i > now /\ now' = i
    /\ last' = Other
    /\ UNCHANGED <<reminders, effectPending, schedVars, geoVars, histVars>>

\* The scheduler called directly, with any reminder at any instant
NextDelay ==
    \/ \E r \in DelayInputs : ScheduleCall(r)
    \/ \E id \in Ids : CancelCall(id)
    \/ LaterCall

SpecDelay == InitDelay /\ [][NextDelay]_vars

\* The lists startWatchingLocation is called with when the tracker is
\* exercised on its own
StartLists ==
    { <<WithId(Arrive, "a")>>, <<WithId(Depart, "b")>>,
      <<WithId(Arrive, "a"), WithId(Depart, "b")>> }

\* startWatchingLocation(list, onTrigger)
StartCall(list, inflight) ==
    /\ NoInFlight
    /\ Cardinality(pendingReads) < MaxPendingReads
    /\ SetGeo(startWatchingLocation(Geo, list, inflight))
    /\ callbacksSinceStart' = 0
    /\ baselineRead' = FALSE
    /\ prevSample' = <<>>
    /\ UNCHANGED firedOnce
    /\ last' = StepWith("start", "", <<>>, watchId # 0, list)
    /\ UNCHANGED <<reminders, effectPending, now, schedVars>>

\* stopWatchingLocation()
StopCall(inflight) ==
    /\ NoInFlight
    /\ SetGeo(stopWatchingLocation(Geo, inflight))
    /\ last' = Step("stop", "", <<>>, watchId # 0)
    /\ UNCHANGED <<reminders, effectPending, now, schedVars, histVars>>

\* The tracker called directly, with the browser's callbacks in between
NextTracker ==
    \/ \E list \in StartLists, b \in BOOLEAN : StartCall(list, b)
    \/ \E b \in BOOLEAN : StopCall(b)
    \/ PositionStep

SpecTracker == Init /\ [][NextTracker]_vars

\* The collections written to the JSON form when the round trip is
\* exercised on its own: every trigger type and mode, optional fields
\* present and absent, a negative number, a location south of the equator.
South ==
    Rec("south", Location, Missing, <<>>, TRUE, 0 - 1, Weeks,
        Loc(0 - 33, 250, OnLeave))
Bare == Rec("bare", Time, Exact, <<>>, FALSE, 0, Missing, <<>>)
JsonPool ==
    TimeReminders \cup GeoReminders
      \cup { WithId(South, "b"), WithId(Bare, "a") }

RECURSIVE ListsUpTo(_, _)
ListsUpTo(pool, n) ==
    IF n = 0 THEN { <<>> }
    ELSE LET shorter == ListsUpTo(pool, n - 1)
         IN shorter \cup { Append(l, r) : l \in shorter, r \in pool }

InitJson ==
    /\ reminders \in ListsUpTo(JsonPool, MaxReminders)
    /\ effectPending = FALSE
    /\ now = 0
    /\ timers = {}
    /\ scheduledNotifications = NoStates
    /\ watchId = 0
    /\ subs = {}
    /\ pendingReads = {}
    /\ locationStates = NoStates
    /\ last = Other
    /\ callbacksSinceStart = 0
    /\ baselineRead = FALSE
    /\ prevSample = <<>>
    /\ firedOnce = {}

\* The effect's localStorage.setItem(key, JSON.stringify(reminders)), then
\* the page is loaded again: useState's initializer parses the saved text.
SaveLoad ==
    /\ last.kind = "other"
    /\ reminders' = JsonParse(JsonStringify(reminders))
    /\ effectPending' = TRUE
    /\ last' = StepWith("load", "", <<>>, FALSE, reminders)
    /\ UNCHANGED <<now, schedVars, geoVars, histVars>>

\* handleExport's downloadJson(reminders), then the file is imported into an
\* empty collection: readJsonFile, the validation of handleFileChange,
\* importReminders.
ExportImport ==
    /\ last.kind = "other"
    /\ LET imported == JsonParse(JsonStringify(reminders))
       IN reminders' =
              IF \A i \in DOMAIN imported :
                     imported[i].id # Missing /\ imported[i].text # Missing
              THEN <<>> \o imported
              ELSE <<>>
    /\ effectPending' = TRUE
    /\ last' = StepWith("import", "", <<>>, FALSE, reminders)
    /\ UNCHANGED <<now, schedVars, geoVars, histVars>>

NextJson ==
    \/ SaveLoad
    \/ ExportImport

SpecJson == InitJson /\ [][NextJson]_vars

\* The latitudes calculateDistance is called with when it is exercised on
\* its own, in units of 0.001 degree: both hemispheres, neighbours, and
\* points degrees apart.
Latitudes == {0 - 9000, 0 - 33, 0 - 1, 0, 1, 2, 33, 899, 900, 901, 9000}

\* calculateDistance(lat1, 0, lat2, 0)
DistanceCall(lat1, lat2) ==
    /\ last' = StepWith("distance", "", <<calculateDistance(lat1, lat2)>>,
                        FALSE, <<lat1, lat2>>)
    /\ UNCHANGED <<reminders, effectPending, now, schedVars, geoVars,
                   histVars>>

NextDistance == \E lat1, lat2 \in Latitudes : DistanceCall(lat1, lat2)

SpecDistance == Init /\ [][NextDistance]_vars

\* Geofences whose boundary a position of the model can lie on: 0.2 degree
\* of latitude is 22239 m, the radius of both.
Near == Rec("near", Location, Missing, <<>>, TRUE, 0, Missing,
            Loc(0, 22239, OnEnter))
Far == Rec("far", Location, Missing, <<>>, TRUE, 0, Missing,
           Loc(0, 22239, OnLeave))
BoundaryLists ==
    { <<WithId(Near, "a")>>, <<WithId(Near, "a"), WithId(Far, "b")>> }

\* positions on the boundary of those geofences, north and south, and the
\* next position outside each
BoundaryPositions == {0 - 201, 0 - 200, 200, 201}

\* The tracker called directly, with positions on and off the boundary
NextBoundary ==
    \/ \E list \in BoundaryLists, b \in BOOLEAN : StartCall(list, b)
    \/ \E b \in BOOLEAN : StopCall(b)
    \/ \E q \in pendingReads, pos \in BoundaryPositions : OneShotRead(q, pos)
    \/ \E q \in pendingReads : OneShotFail(q)
    \/ \E w \in subs, pos \in BoundaryPositions : WatchSample(w, pos)
    \/ \E w \in subs, pos \in BoundaryPositions : InFlightSample(w, pos)
    \/ \E w \in subs, b \in BOOLEAN : WatchError(w, b)

SpecBoundary == Init /\ [][NextBoundary]_vars

\* The collection has stopped changing: any collection the user can have
\* built from the Time reminders, its last change not yet reconciled.  The
\* effect runs, the clock advances and due timers fire, each of them
\* eventually.
InitLive ==
    /\ reminders \in ListsUpTo(TimeReminders, MaxReminders)
    /\ effectPending = TRUE
    /\ now = 0
    /\ timers = {}
    /\ scheduledNotifications = NoStates
    /\ watchId = 0
    /\ subs = {}
    /\ pendingReads = {}
    /\ locationStates = NoStates
    /\ last = Other
    /\ callbacksSinceStart = 0
    /\ baselineRead = FALSE
    /\ prevSample = <<>>
    /\ firedOnce = {}

NextLive ==
    \/ \E b \in BOOLEAN : Reconcile(b)
    \/ Tick
    \/ \E t \in timers : TimerFire(t)

\* The step of Reconcile, told by the flag it clears: in NextLive no other
\* action changes effectPending, and Reconcile is enabled whenever it is set.
EffectRuns == effectPending /\ effectPending' = FALSE

SpecLive ==
    /\ InitLive
    /\ [][NextLive]_vars
    /\ WF_effectPending(EffectRuns)
    /\ WF_vars(Tick)
    /\ WF_vars(\E t \in timers : TimerFire(t))

\* The catch-up loop of the exact recurring branch, one iteration a step.
\* Instants are whole milliseconds, as a Date holds them; the interval is in
\* microseconds, so that an interval that is not a whole number of
\* milliseconds (interval 0.00001 minutes is 0.6 ms) can be told from one
\* that is.
MicroPerMs == 1000

\* Date.prototype.setTime(t): the time value is clipped to an integer
\* number of milliseconds (instants here are not negative)
SetTime(micro) == micro \div MicroPerMs

\* the state of the loop: targetDate.getTime() and intervalMs
Loop(kind, target, intervalMicro) ==
    StepWith(kind, "", <<>>, FALSE, <<target, intervalMicro>>)

\* The calls that reach the test of the recurring branch (today's target is
\* not in the future): targets and clocks a few milliseconds apart with
\* intervals around one millisecond, and ten minutes apart with an interval
\* of ten minutes; intervals negative, zero and positive.
LoopInputs ==
    { <<target, nowMs, iv>> \in
          (0..3) \X (3..8) \X {0 - 1500, 0, 600, 999, 1000, 1500, 2500} :
        target <= nowMs }
      \cup
    { <<target, nowMs, iv>> \in
          {0, 10 * MinuteMs} \X {10 * MinuteMs, 20 * MinuteMs}
            \X {0 - 10 * MinuteMs * MicroPerMs, 10 * MinuteMs * MicroPerMs} :
        target <= nowMs }

InitCatchUp ==
    /\ \E in \in LoopInputs :
           /\ now = in[2]
           /\ last = Loop("test", in[1], in[3])
    /\ reminders = <<>>
    /\ effectPending = FALSE
    /\ timers = {}
    /\ scheduledNotifications = NoStates
    /\ watchId = 0
    /\ subs = {}
    /\ pendingReads = {}
    /\ locationStates = NoStates
    /\ callbacksSinceStart = 0
    /\ baselineRead = FALSE
    /\ prevSample = <<>>
    /\ firedOnce = {}

LoopFrame ==
    UNCHANGED <<reminders, effectPending, now, schedVars, geoVars, histVars>>

\* if (intervalMs > 0) { while ... } else { setDate(getDate() + 1) }
LoopEnter ==
    /\ last.kind = "test"
    /\ last' = IF last.arg[2] > 0
               THEN Loop("loop", last.arg[1], last.arg[2])
               ELSE Loop("fallback", NextDay(now, 0, 0), last.arg[2])
    /\ LoopFrame

\* targetDate.setTime(targetDate.getTime() + intervalMs)
LoopIterate ==
    /\ last.kind = "loop"
    /\ last.arg[1] <= now
    /\ last' = Loop("loop", SetTime(last.arg[1] * MicroPerMs + last.arg[2]),
                    last.arg[2])
    /\ LoopFrame

\* the test of the while fails
LoopExit ==
    /\ last.kind = "loop"
    /\ last.arg[1] > now
    /\ last' = Loop("exit", last.arg[1], last.arg[2])
    /\ LoopFrame

NextCatchUp ==
    \/ LoopEnter
    \/ LoopIterate
    \/ LoopExit

\* the code runs on: every statement that can be executed is
SpecCatchUp == InitCatchUp /\ [][NextCatchUp]_vars /\ WF_vars(NextCatchUp)

\* The files the user picks in the settings page: JSON text of an array of
\* entries, some of them without id or without text, or JSON text that is
\* not an array.
NoId == WithId(Once10, Missing)
NoText == WithId(Rec(Missing, Location, Missing, <<>>, TRUE, 0, Missing,
                     Loc(1, 100, OnLeave)), "b")
FileEntries == { WithId(Once10, "a"), WithId(Arrive, "b"), NoId, NoText }
FileLists ==
    {<<>>} \cup { <<e>> : e \in FileEntries }
           \cup { <<e, f>> : e \in FileEntries, f \in FileEntries }
Files ==
    { [isArray |-> TRUE, text |-> JsonStringify(l)] : l \in FileLists }
      \cup { [isArray |-> FALSE, text |-> <<>>] }

\* the mutant of ValidFile: only the id of each entry is tested
ValidFile_IdOnly(imported, isArray) ==
    /\ isArray
    /\ \A i \in DOMAIN imported : imported[i].id # Missing

\* Array.isArray(importedReminders) &&
\*     importedReminders.every(r => r.id && r.text)
ValidFile(imported, isArray) ==
    /\ isArray
    /\ \A i \in DOMAIN imported :
           imported[i].id # Missing /\ imported[i].text # Missing

\* handleFileChange: readJsonFile, the validation, and onImport
\* (importReminders) when it passes; an alert when it does not.
HandleFileChange(file) ==
    /\ NoInFlight
    /\ ~effectPending
    /\ LET imported == JsonParse(file.text)
       IN IF ValidFile(imported, file.isArray)
          THEN /\ Len(reminders) + Len(imported) <= MaxReminders
               /\ reminders' = reminders \o imported
               /\ effectPending' = TRUE
               /\ last' = StepWith("import", "", <<>>, FALSE, <<file>>)
          ELSE /\ UNCHANGED <<reminders, effectPending>>
               /\ last' = StepWith("rejected", "", <<>>, FALSE, <<file>>)
    /\ UNCHANGED <<now, schedVars, geoVars, histVars>>

\* The collection with the import of files
NextImport ==
    \/ \E file \in Files : HandleFileChange(file)
    \/ \E b \in BOOLEAN : Reconcile(b)
    \/ PositionStep

SpecImport == Init /\ [][NextImport]_vars

\* ------------------------------------------------------------ the claims

TimersOf(id) == { t \in timers : t.rem.id = id }

\* C1: at most one timer is pending for any reminder id, and it is the one
\* the map holds for that id: a timer that schedule(r) replaced is no longer
\* pending, so it never fires.
C1_OneTimerPerId ==
    /\ \A id \in Ids : Cardinality(TimersOf(id)) <= 1
    /\ \A t \in timers :
           /\ t.rem.id \in DOMAIN scheduledNotifications
           /\ scheduledNotifications[t.rem.id] = t.tid

\* a reconcile has scheduled a reminder whose timer was pending, and one
\* timer is pending for it
C1_Witness ==
    /\ last.kind = "reconcile"
    /\ last.cancelled
    /\ \E id \in Ids : Cardinality(TimersOf(id)) = 1

\* C2: once the collection has been reconciled, every pending timer belongs
\* to an id that is in the collection as a Time reminder.
C2_TimersBelongToCollection ==
    ~effectPending =>
        \A t \in timers :
            \E i \in DOMAIN reminders :
                reminders[i].id = t.rem.id /\ IsTime(reminders[i])

\* The stored state checkReminders finds for entry i of its list: the value
\* an earlier entry with the same id has just stored, else the value stored
\* before the sample, else none.
StoredAt(states, pos, list, i) ==
    LET earlier == { j \in 1..(i - 1) :
                       list[j].location # <<>> /\ list[j].id = list[i].id }
    IN IF earlier # {}
       THEN <<IsInside(pos,
                  list[CHOOSE j \in earlier : \A k \in earlier : k <= j]
                      .location[1])>>
       ELSE IF list[i].id \in DOMAIN states THEN <<states[list[i].id]>>
       ELSE <<>>

\* entry i is a flip in the configured direction
MatchingFlip(states, pos, list, i) ==
    /\ list[i].location # <<>>
    /\ LET stored == StoredAt(states, pos, list, i)
           inside == IsInside(pos, list[i].location[1])
           dir == list[i].location[1].triggerOn
       IN \/ stored = <<FALSE>> /\ inside /\ dir = OnEnter
          \/ stored = <<TRUE>> /\ ~inside /\ dir = OnLeave

RECURSIVE FlipsFrom(_, _, _, _)
FlipsFrom(states, pos, list, i) ==
    IF i > Len(list) THEN <<>>
    ELSE (IF MatchingFlip(states, pos, list, i) THEN <<list[i]>> ELSE <<>>)
             \o FlipsFrom(states, pos, list, i + 1)

\* C3: when a position sample is processed, onTrigger is invoked for exactly
\* the watched reminders whose computed isInside differs from the stored
\* state in the configured direction (false to true with OnEnter, true to
\* false with OnLeave), once each and in list order; an unchanged isInside
\* and the opposite flip invoke nothing.
C3_TriggerExactlyOnMatchingFlip ==
    [][\A w \in subs, pos \in Positions :
          (WatchSample(w, pos) \/ InFlightSample(w, pos)) =>
              last'.fired = FlipsFrom(locationStates, pos, w.rems, 1)]_vars

\* a sample of the live watch, which watches one reminder, has triggered it
C3_Witness ==
    /\ last.kind = "sample"
    /\ \E w \in subs :
           /\ w.live
           /\ Len(w.rems) = 1
           /\ last.fired = w.rems

\* C4: the first position callback delivered after start() invokes no
\* trigger.
C4_FirstCallbackSilent ==
    [][(callbacksSinceStart = 0 /\ callbacksSinceStart' = 1) =>
          last'.fired = <<>>]_vars

\* C5: no sample of the live watch is processed before the one-shot read of
\* the current start() has set the baseline.
C5_BaselineBeforeSamples ==
    last.kind = "sample" => baselineRead

\* C6: a sample delivered for a cleared subscription triggers nothing and
\* leaves the stored geofence state as it was.
C6_InFlightSampleIgnored ==
    [][last'.kind = "inflight" =>
          /\ last'.fired = <<>>
          /\ locationStates' = locationStates]_vars

\* C7: a non-recurring reminder that fires, by its timer or by its geofence
\* transition, is no longer in the collection afterwards.
C7_FiredOnceRemoved ==
    last.kind \in {"fire", "sample", "inflight"} =>
        \A i \in DOMAIN last.fired :
            ~last.fired[i].isRecurring =>
                last.fired[i].id \notin IdsOf(reminders)

\* C8: after the timer of a recurring reminder has fired, a timer armed at
\* that instant by the callback is pending for its id and carries the same
\* reminder; for an Interval reminder in minutes it is due interval * 60000
\* ms after the fire.
C8_RecurringRearms ==
    (last.kind = "fire" /\ last.fired[1].isRecurring) =>
        \E t \in timers :
            /\ t.rem = last.fired[1]
            /\ t.armedAt = now
            /\ t.chain >= 1
            /\ last.id \in DOMAIN scheduledNotifications
            /\ scheduledNotifications[last.id] = t.tid
            /\ (t.rem.triggerTimeType = Interval
                  /\ t.rem.intervalUnit = Minutes) =>
                    FireAt(t) = now + t.rem.interval * 60000

\* the reminder of 10 minutes scheduled at 0 has fired at 10 and at 20
\* minutes, and is armed again
C8_Witness ==
    /\ last.kind = "fire"
    /\ now = 1200000
    /\ \E t \in timers :
           /\ t.rem = last.fired[1]
           /\ t.rem.isRecurring /\ t.rem.interval = 10
           /\ t.chain = 2
           /\ t.armedAt = 1200000

\* C9: after the timer of a non-recurring reminder has fired, the map holds
\* no handle for its id and no timer is pending for it.
C9_OneShotForgotten ==
    (last.kind = "fire" /\ ~last.fired[1].isRecurring) =>
        /\ last.id \notin DOMAIN scheduledNotifications
        /\ TimersOf(last.id) = {}

C9_Witness ==
    /\ last.kind = "fire"
    /\ ~last.fired[1].isRecurring
    /\ last.fired[1].id \in IdsOf(reminders)

\* C10: cancel(id) leaves no timer and no handle for id and touches nothing
\* else; it changes nothing when the map holds no handle for id, and a second
\* cancel(id) changes nothing; deleteReminder(id) cancels the timer of id.
C10_CancelIdempotent ==
    /\ \A id \in Ids :
           LET s1 == cancelNotification(Sched, id)
           IN /\ \A t \in s1.timers : t.rem.id # id
              /\ id \notin DOMAIN s1.map
              /\ { t \in timers : t.rem.id # id } = s1.timers
              /\ id \notin DOMAIN scheduledNotifications => s1 = Sched
              /\ cancelNotification(s1, id) = s1
    /\ last.kind = "delete" => TimersOf(last.id) = {}

\* deleteReminder has cancelled a pending timer
C10_Witness ==
    /\ last.kind = "delete"
    /\ last.cancelled

\* milliseconds per unit, as the data model states them
UnitMs(unit) ==
    CASE unit = Minutes -> MinuteMs [] unit = Hours -> HourMs
      [] unit = Days -> DayMs

IsIntervalMode(r) ==
    /\ r.triggerType = Time
    /\ r.triggerTimeType = Interval
    /\ r.interval > 0
    /\ r.intervalUnit \in {Minutes, Hours, Days}

\* scheduleNotification has just been called directly, with Called
IsCall == last.kind = "schedule"
Called == last.arg[1]

\* the timers the call has armed for its argument
Armed == { t \in timers : t.rem = Called /\ t.armedAt = now }

\* C11: a call of schedule with an Interval-mode Time reminder (interval > 0,
\* unit Minutes, Hours or Days) arms a timer for it whose delay is exactly
\* interval x unitMs and runs from the instant of the call, whatever the
\* clock shows and whatever timer was pending for the id.
C11_IntervalDelayExact ==
    (IsCall /\ IsIntervalMode(Called)) =>
        \E t \in Armed :
            /\ t.delay = Called.interval * UnitMs(Called.intervalUnit)
            /\ scheduledNotifications[Called.id] = t.tid
            /\ TimersOf(Called.id) = {t}

\* schedule has armed a 20 Hours timer on the 25-hour day, in place of a
\* timer that was pending for the id
C11_Witness ==
    /\ IsCall
    /\ last.cancelled
    /\ now = DayStart(1) + 660000
    /\ IsIntervalMode(Called)
    /\ Called.intervalUnit = Hours
    /\ \E t \in Armed : t.delay = 20 * HourMs

Parses(tod) ==
    /\ tod # <<>>
    /\ ParseTimeOfDay(tod).hours # NaN
    /\ ParseTimeOfDay(tod).minutes # NaN

IsExact(r) ==
    /\ r.triggerType = Time
    /\ r.triggerTimeType = Exact
    /\ Parses(r.timeOfDay)

\* today's occurrence of r.timeOfDay, as seen at the instant nowMs
TodayAt(r, nowMs) ==
    SetHours(nowMs, ParseTimeOfDay(r.timeOfDay).hours,
             ParseTimeOfDay(r.timeOfDay).minutes)

HasInterval(r) ==
    /\ r.isRecurring
    /\ r.interval >= 0
    /\ r.intervalUnit \in {Missing, Minutes, Hours, Days}

\* the interval of r in milliseconds
EffectiveMs(r) ==
    (IF r.interval = 0 THEN 1 ELSE r.interval)
      * UnitMs(IF r.intervalUnit = Missing THEN Days ELSE r.intervalUnit)

\* C13: schedule, called with an Exact-mode recurring reminder whose
\* timeOfDay today is not in the future, arms a timer whose target is
\* today's occurrence plus k whole intervals, k >= 1, strictly later than
\* now, with k the smallest such: target - interval is not in the future.
C13_SmallestFutureOccurrence ==
    (/\ IsCall
     /\ IsExact(Called)
     /\ HasInterval(Called)
     /\ TodayAt(Called, now) <= now) =>
        \E t \in Armed :
            /\ FireAt(t) > now
            /\ FireAt(t) - EffectiveMs(Called) <= now
            /\ FireAt(t) >= TodayAt(Called, now) + EffectiveMs(Called)
            /\ (FireAt(t) - TodayAt(Called, now)) % EffectiveMs(Called) = 0

\* schedule was called at 01:10 with a reminder for 00:10 that recurs every
\* 20 minutes: 00:30, 00:50 and 01:10 are not in the future, the timer is
\* due at 01:30
C13_Witness ==
    /\ IsCall
    /\ now = 4200000
    /\ IsExact(Called)
    /\ HasInterval(Called)
    /\ Called.timeOfDay = T0010
    /\ Called.interval = 20
    /\ Called.intervalUnit = Minutes
    /\ \E t \in Armed : FireAt(t) = 5400000

\* r is a Time reminder that is incompletely configured: Interval mode
\* without a positive interval in a known unit, Exact mode without
\* timeOfDay, or no mode at all
Incomplete(r) ==
    /\ r.triggerType = Time
    /\ \/ /\ r.triggerTimeType = Interval
          /\ \/ r.interval <= 0
             \/ r.intervalUnit \notin {Minutes, Hours, Days}
       \/ r.triggerTimeType = Exact /\ r.timeOfDay = <<>>
       \/ r.triggerTimeType = Missing

\* the part of C14 about incomplete reminders: after schedule(r) no timer is
\* pending for r.id and the map has no entry for it
NoTimerWhenIncomplete ==
    (IsCall /\ Incomplete(Called)) =>
        /\ TimersOf(Called.id) = {}
        /\ Called.id \notin DOMAIN scheduledNotifications

\* C14: schedule(r) arms no timer and leaves no map entry for r.id when r is
\* incompletely configured or its computed delay is not positive; every
\* timer that schedule arms has a strictly positive delay.
C14_OnlyPositiveDelaysArmed ==
    /\ NoTimerWhenIncomplete
    /\ \A t \in timers : t.delay > 0

\* C15: schedule(r) for a reminder that is not a Time reminder arms no
\* timer and cancels the timer that was pending for r.id: afterwards no
\* timer is pending for the id and the map has no entry for it.
C15_NonTimeArmsNothing ==
    (IsCall /\ Called.triggerType # Time) =>
        /\ TimersOf(Called.id) = {}
        /\ Called.id \notin DOMAIN scheduledNotifications

\* schedule was called with a Location reminder while a timer was pending
\* for its id
C15_Witness ==
    /\ IsCall
    /\ Called.triggerType = Location
    /\ last.cancelled
    /\ timers = {}

\* C16: the record a timer or a geofence trigger hands to the callback is
\* the one of the latest schedule or start call; so once an edit has been
\* reconciled, every record that is fired is the record the collection
\* holds, never the one from before the edit.
C16_FiresCarryReconciledRecord ==
    [][(~effectPending /\ last'.kind \in {"fire", "sample", "inflight"}) =>
          \A i \in DOMAIN last'.fired :
              \E j \in DOMAIN reminders : reminders[j] = last'.fired[i]]_vars

\* the stored states are what the sample at pos gives for every reminder of
\* list that has a location
ReflectsSample(states, pos, list) ==
    \A i \in DOMAIN list :
        list[i].location # <<>> =>
            /\ list[i].id \in DOMAIN states
            /\ states[list[i].id] = IsInside(pos, list[i].location[1])

\* C17: after a position sample has been processed, by the watch callback
\* or by the callback of the one-shot read, the stored state of every
\* reminder watched by it equals isInside computed from that sample, whether
\* or not a trigger was invoked.
C17_StateReflectsSample ==
    [][/\ \A w \in subs, pos \in Positions :
              (WatchSample(w, pos) \/ InFlightSample(w, pos)) =>
                  ReflectsSample(locationStates', pos, w.rems)
       /\ \A q \in pendingReads, pos \in Positions :
              OneShotRead(q, pos) =>
                  ReflectsSample(locationStates', pos, q.rems)]_vars

LiveSubs == { w \in subs : w.live }

\* C18: at most one position subscription is live, and it is the one
\* watchId names; after start() the live subscription is the one that call
\* made, also when a watch was live at the call.
C18_OneLiveSubscription ==
    /\ Cardinality(LiveSubs) <= 1
    /\ \A w \in LiveSubs : w.wid = watchId
    /\ last.kind = "start" =>
           \E w \in LiveSubs : LiveSubs = {w} /\ w.rems = last.arg

\* start() was called while a watch was live, and exactly one subscription
\* is live
C18_Witness ==
    /\ last.kind = "start"
    /\ last.cancelled
    /\ Cardinality(LiveSubs) = 1

\* C19: stop() leaves no subscription live and watchId null; called when no
\* watch is live, as it is when called twice in a row, it changes nothing
\* of the tracker.
C19_StopIdempotent ==
    [][\A b \in BOOLEAN :
          StopCall(b) =>
              /\ watchId' = 0
              /\ LiveSubs' = {}
              /\ watchId = 0 => UNCHANGED geoVars]_vars

\* stop() was called when no watch was live, after an earlier watch had
\* stored a state
C19_Witness ==
    /\ last.kind = "stop"
    /\ ~last.cancelled
    /\ watchId = 0
    /\ locationStates # NoStates

\* the ids of the reminders the live watch was started with
WatchedIds == UNION { IdsOf(w.rems) : w \in LiveSubs }

\* C20: locationStates holds entries only for ids of the watched set: it is
\* empty whenever no watch is live, and while a watch is live it holds no id
\* that was not in the list of its start() call.
C20_StatesOnlyForWatchedIds ==
    /\ watchId = 0 => locationStates = NoStates
    /\ DOMAIN locationStates \subseteq WatchedIds

\* C21: the error callback of the watch stops the watch, and nothing
\* subscribes again by itself: after the error no subscription is live, the
\* next event is not a watch sample being processed, and only start() (from
\* the caller or from the effect) makes a watch live again.
C21_ErrorStopsWatch ==
    [][/\ last'.kind = "error" => (watchId' = 0 /\ LiveSubs' = {})
       /\ last.kind = "error" => last'.kind \notin {"sample", "inflight"}
       /\ (watchId = 0 /\ watchId' # 0) =>
              last'.kind \in {"start", "reconcile"}]_vars

\* the one-shot read of the current start() has not been answered yet
ReadOutstanding == \E q \in pendingReads : q.wid = watchId

\* C22: a failure of the one-shot read of start() is surfaced as an error,
\* it does not silently leave the reminders without a baseline: while a
\* watch is live, its one-shot read is still outstanding or has set the
\* baseline.
C22_ReadFailureSurfaced ==
    (watchId # 0 /\ ~ReadOutstanding) => baselineRead

\* C23: no two reminders of the collection have the same id.
C23_IdsUnique ==
    \A i, j \in DOMAIN reminders :
        reminders[i].id = reminders[j].id => i = j

\* the pending fire instants: which record fires for which id, and when
FireInstants(ts) ==
    { [id |-> t.rem.id, rem |-> t.rem, at |-> FireAt(t)] : t \in ts }

NoTimers == [timers |-> {}, map |-> NoStates]

\* the scheduler is in the state in which scheduling list at nowMs leaves it
JustScheduled(list, nowMs) ==
    FireInstants(timers) = FireInstants(ScheduleAll(NoTimers, list, nowMs).timers)

\* C24: when the effect schedules a list of Time reminders that has just
\* been scheduled at the same instant, the pending fire instants stay what
\* they were, and every reminder of the list that can be armed has exactly
\* one pending timer.
C24_ScheduleAllIdempotent ==
    [][(/\ last'.kind = "reconcile"
        /\ reminders # <<>>
        /\ JustScheduled(SelectSeqBy(reminders, Time), now)) =>
          /\ FireInstants(timers') = FireInstants(timers)
          /\ \A i \in DOMAIN reminders :
                 ComputeDelay(reminders[i], now).arm =>
                     Cardinality(TimersOf(reminders[i].id)') = 1]_vars

\* two reminders were scheduled at instant 0 while the timers of an earlier
\* scheduling at that instant were pending, and each has its timer
C24_Witness ==
    /\ last.kind = "reconcile"
    /\ last.cancelled
    /\ now = 0
    /\ Len(reminders) = 2
    /\ JustScheduled(reminders, now)
    /\ \A id \in Ids : Cardinality(TimersOf(id)) = 1

OnBoundary(pos, r) ==
    /\ r.location # <<>>
    /\ calculateDistance(pos, r.location[1].lat) = r.location[1].radius * 1000

\* the stored state of every reminder of the list is inside when pos is on
\* its boundary
BoundaryInside(states, pos, list) ==
    \A i \in DOMAIN list :
        OnBoundary(pos, list[i]) =>
            list[i].id \in DOMAIN states /\ states[list[i].id]

\* C27: a position whose distance to a reminder's centre equals the radius
\* counts as inside, in the baseline the one-shot read stores and in the
\* state a watch sample stores, and for every position the baseline read
\* stores what the evaluation of a sample at that position would store.
C27_BoundaryInclusive ==
    [][/\ \A q \in pendingReads, pos \in BoundaryPositions :
              OneShotRead(q, pos) =>
                  /\ BoundaryInside(locationStates', pos, q.rems)
                  /\ \A i \in DOMAIN q.rems :
                         locationStates'[q.rems[i].id] =
                             checkReminders(locationStates, pos, q.rems,
                                            <<>>).states[q.rems[i].id]
       /\ \A w \in subs, pos \in BoundaryPositions :
              (WatchSample(w, pos) \/ InFlightSample(w, pos)) =>
                  BoundaryInside(locationStates', pos, w.rems)]_vars

\* a sample on the boundary was evaluated after a baseline outside: the
\* OnEnter reminder was triggered, it is stored as inside
C27_Witness ==
    /\ last.kind = "sample"
    /\ baselineRead
    /\ Len(last.fired) = 1
    /\ last.fired[1].text = "near"
    /\ locationStates["a"]

\* reminder r flips in its configured direction between positions s1 and s2
FlipBetween(r, s1, s2) ==
    /\ r.location # <<>>
    /\ LET loc == r.location[1]
       IN \/ ~IsInside(s1, loc) /\ IsInside(s2, loc) /\ loc.triggerOn = OnEnter
          \/ IsInside(s1, loc) /\ ~IsInside(s2, loc) /\ loc.triggerOn = OnLeave

\* C28: when a sample of the live watch is processed and an earlier sample
\* of the same watch was processed before it, every watched reminder that
\* flips in its configured direction between the two positions is handed to
\* onTrigger, whenever the one-shot baseline read was answered.
C28_FlipBetweenSamplesTriggers ==
    [][(last'.kind = "sample" /\ prevSample # <<>>) =>
          \A w \in LiveSubs : \A i \in DOMAIN w.rems :
              FlipBetween(w.rems[i], prevSample[1], prevSample'[1]) =>
                  \E k \in DOMAIN last'.fired : last'.fired[k] = w.rems[i]]_vars

\* the reminder a pending timer was armed for is in the collection as it
\* was scheduled, under an id no other entry has
Unchanged(t) ==
    /\ \E i \in DOMAIN reminders : reminders[i] = t.rem
    /\ \A i \in DOMAIN reminders :
           reminders[i].id = t.rem.id => reminders[i] = t.rem

\* C29: when the collection is reconciled after a change, every pending
\* timer of a Time reminder the change has left as it was is still pending
\* for the instant it was armed for.
C29_OtherTimersKeepInstant ==
    [][last'.kind = "reconcile" =>
          \A t \in timers :
              Unchanged(t) =>
                  \E u \in timers' :
                      u.rem = t.rem /\ FireAt(u) = FireAt(t)]_vars

\* C30: the timer of a non-recurring Time reminder does not fire when a
\* timer of that reminder has fired before and the reminder has not been
\* edited or deleted since.
C30_NonRecurringFiresOnce ==
    [][(last'.kind = "fire" /\ ~last'.fired[1].isRecurring) =>
          last'.id \notin firedOnce]_vars

\* C31: no trigger, by a timer or by a position sample, is invoked for a
\* reminder whose id is not in the collection: once deleteReminder has
\* removed an id, nothing fires for it.
C31_NoTriggerAfterDelete ==
    [][last'.kind \in {"fire", "sample", "inflight"} =>
          \A k \in DOMAIN last'.fired :
              last'.fired[k].id \in IdsOf(reminders)]_vars

\* C32: a live subscription stops being live only by a stop, by the start
\* that replaces it, or by an error of its own: the error callback of a
\* subscription that was cleared before leaves the live one as it is.
C32_StaleErrorKeepsWatch ==
    [][\A w \in LiveSubs :
          w \notin LiveSubs' =>
              \/ last'.kind \in {"stop", "start", "reconcile"}
              \/ last'.kind = "error" /\ NoInFlight]_vars

InCollection(r) == \E i \in DOMAIN reminders : reminders[i] = r

Fires(r) == last.kind = "fire" /\ last.fired = <<r>>

\* r is validly configured, in the collection the effect has reconciled,
\* and has a fire to come that the clock of the model reaches: it is
\* recurring or has not fired yet
Owed(r) ==
    /\ InCollection(r)
    /\ ~effectPending
    /\ ~Fires(r)
    /\ ComputeDelay(r, now).arm
    /\ now + ComputeDelay(r, now).delay <= MaxNow
    /\ r.isRecurring \/ r.id \notin firedOnce

\* C33: once the collection has stopped changing and the effect has run,
\* every validly configured Time reminder in it fires, and a recurring one
\* fires again after each fire (as long as the clock of the model reaches
\* its next occurrence).
C33_EveryTimeReminderFires ==
    \A r \in TimeReminders : [](Owed(r) => <>Fires(r))

IsLocation(r) == r.triggerType = Location

\* C34: right after the effect has reconciled the collection, no watch is
\* live when the collection has no Location reminder, and otherwise exactly
\* one is, the one watchId names, over the Location reminders of the
\* collection in their order.
C34_WatchMatchesCollection ==
    last.kind = "reconcile" =>
        IF \A i \in DOMAIN reminders : ~IsLocation(reminders[i])
        THEN watchId = 0 /\ LiveSubs = {}
        ELSE \E w \in LiveSubs :
                 /\ LiveSubs = {w}
                 /\ w.wid = watchId
                 /\ w.rems = SelectSeq(reminders, IsLocation)

\* the effect has reconciled a collection whose only reminder is a Time
\* reminder while a watch was live: the watch is cleared, one of its samples
\* still in flight
C34_Witness ==
    /\ last.kind = "reconcile"
    /\ Len(reminders) = 1
    /\ IsTime(reminders[1])
    /\ watchId = 0
    /\ \E w \in subs : ~w.live

\* C35: the catch-up loop is entered only with a positive interval, every
\* iteration moves the target forward, and the branch always comes to an
\* end: the loop exits with target > now, or it was skipped for the
\* fallback to the next day.
C35_CatchUpTerminates ==
    /\ [](last.kind = "loop" => last.arg[2] > 0)
    /\ [](last.kind = "exit" => last.arg[1] > now)
    /\ [](last.kind = "fallback" => last.arg[2] <= 0)
    /\ <>(last.kind \in {"exit", "fallback"})

\* r is an Exact-mode recurring reminder whose interval or unit is missing,
\* the other one a value of the data model
MissingRepeat(r) ==
    /\ IsExact(r)
    /\ HasInterval(r)
    /\ r.interval = 0 \/ r.intervalUnit = Missing

\* the call has armed a timer for today's occurrence when that is in the
\* future, and else for the first occurrence after now of a repeat of
\* repeatMs from today's
ArmedWithRepeat(repeatMs) ==
    \E t \in Armed :
        /\ FireAt(t) > now
        /\ TodayAt(Called, now) > now => FireAt(t) = TodayAt(Called, now)
        /\ TodayAt(Called, now) <= now =>
               /\ FireAt(t) - repeatMs <= now
               /\ FireAt(t) >= TodayAt(Called, now) + repeatMs
               /\ (FireAt(t) - TodayAt(Called, now)) % repeatMs = 0

\* C36 as stated: schedule, called with an Exact-mode recurring reminder
\* whose interval or intervalUnit is missing, arms a timer, with a repeat of
\* 1 Day.
C36_MissingRepeatsDaily ==
    (IsCall /\ MissingRepeat(Called)) => ArmedWithRepeat(DayMs)

\* C36, amended: schedule, called with an Exact-mode recurring reminder
\* whose interval or intervalUnit is missing, arms a timer, with a missing
\* interval taken as 1 and a missing unit as Days, each on its own: the
\* repeat is 1 Day when both are missing, one unit when the interval is
\* missing, interval Days when the unit is.
C36_MissingRepeatDefaults ==
    (IsCall /\ MissingRepeat(Called)) => ArmedWithRepeat(EffectiveMs(Called))

\* schedule was called at 01:10 with a reminder for 00:10 that recurs in
\* Hours and has no interval: the timer is due at 02:10, one hour after the
\* occurrence at 01:10
C36_Witness ==
    /\ IsCall
    /\ now = 4200000
    /\ MissingRepeat(Called)
    /\ Called.timeOfDay = T0010
    /\ Called.interval = 0
    /\ Called.intervalUnit = Hours
    /\ \E t \in Armed : FireAt(t) = 7800000

\* the entries of a file as the collection would hold them, when the file is
\* an array whose entries all have an id and a text; none otherwise
Acceptable(file) ==
    IF /\ file.isArray
       /\ \A i \in DOMAIN file.text :
              /\ \E k \in DOMAIN file.text[i] : file.text[i][k].key = "id"
              /\ \E k \in DOMAIN file.text[i] : file.text[i][k].key = "text"
    THEN <<JsonParse(file.text)>>
    ELSE <<>>

====
